---------------------------- MODULE Spec2Model ----------------------------
(***************************************************************************)
(* A model of the DCPU-16 emulator of dcpu.py: the RAM, the register bank  *)
(* and the CPU with its operand resolution, its opcodes and step().        *)
(*                                                                         *)
(* Python integers are unbounded; TLC's are 32 bits wide.  Every product   *)
(* or shift of dcpu.py that can pass 2^31 is therefore computed here in    *)
(* halves (MulParts, ShlParts, ShrParts, DivO), bit for bit the value the  *)
(* Python expression has.                                                  *)
(***************************************************************************)
EXTENDS Integers, Sequences, FiniteSets, TLC

\* CPU.__init__: RAM(word_length=16, ...), DCPURegisterBank(word_length=16, ...)
WordLength == 16

\* CPU.__init__: RAM(..., size=2**16)
RamSize == 65536

\* 2**word_length, the modulus of sanitized_value
TwoToW == 2 ^ WordLength

Word == 0 .. (TwoToW - 1)

\* DCPURegisterBank.all_regs and DCPURegisterBank.regs (= all_regs[:8])
all_regs == <<"a", "b", "c", "x", "y", "z", "i", "j", "pc", "sp", "o">>

regs == SubSeq(all_regs, 1, 8)

AllRegNames == { all_regs[k] : k \in 1 .. Len(all_regs) }

--------------------------------------------------------------------------
(* Bit operations on naturals below 2^16 (Python's &, |, ^).               *)

RECURSIVE BitOp(_, _, _, _)
\* op is the truth table of the bit operation, indexed by 2*x + y + 1
BitOp(op, x, y, n) ==
    IF n = 0 THEN 0
    ELSE op[2 * (x % 2) + (y % 2) + 1] + 2 * BitOp(op, x \div 2, y \div 2, n - 1)

BitAnd(x, y) == BitOp(<<0, 0, 0, 1>>, x, y, WordLength)

BitOr(x, y) == BitOp(<<0, 1, 1, 1>>, x, y, WordLength)

BitXor(x, y) == BitOp(<<0, 1, 1, 0>>, x, y, WordLength)

\* (a*b) as [lo |-> (a*b) % 2^16, hi |-> ((a*b) >> 16) & 0xffff], for words a, b
MulParts(a, b) ==
    LET p1 == (a \div 256) * b
        p0 == (a % 256) * b
        t  == (p1 % 256) * 256 + p0
    IN  [lo |-> t % TwoToW, hi |-> ((p1 \div 256) + (t \div TwoToW)) % TwoToW]

\* (a<<b) as [lo |-> (a<<b) % 2^16, hi |-> ((a<<b) >> 16) & 0xffff], for words a, b
ShlParts(a, b) ==
    IF b < 16 THEN [lo |-> (a * 2 ^ b) % TwoToW, hi |-> (a * 2 ^ b) \div TwoToW]
    ELSE IF b < 32 THEN [lo |-> 0, hi |-> (a * 2 ^ (b - 16)) % TwoToW]
    ELSE [lo |-> 0, hi |-> 0]

\* a>>b and ((a<<16)>>b) & 0xffff, for words a, b; for b <= 16 the bits of
\* a<<16 that land in the low word are the low b bits of a
ShrParts(a, b) ==
    [lo |-> IF b < 16 THEN a \div (2 ^ b) ELSE 0,
     hi |-> IF b <= 16 THEN (a % (2 ^ b)) * 2 ^ (16 - b)
            ELSE IF b < 32 THEN a \div (2 ^ (b - 16))
            ELSE 0]

RECURSIVE LongDiv(_, _, _)
\* the n-bit quotient (r * 2^n) \div b, for r < b
LongDiv(r, b, n) ==
    IF n = 0 THEN 0
    ELSE LET r2  == 2 * r
             bit == IF r2 >= b THEN 1 ELSE 0
         IN  bit * 2 ^ (n - 1) + LongDiv(r2 - bit * b, b, n - 1)

\* ((a<<16)//b) & 0xffff, for words a and b >= 1
DivO(a, b) == LongDiv(a % b, b, WordLength)

--------------------------------------------------------------------------
(* Module-level helpers of dcpu.py.                                        *)

\* sanitized_value without the reduction modulo 2**word_length
sanitized_value_unreduced(value, word_length) == value

sanitized_value(value, word_length) == value % (2 ^ word_length)

does_overflow(value, word_length) == ~(0 <= value /\ value < 2 ^ word_length)

compile_word(b, a, o) == o + (a * 16) + (b * 1024)

\* returns (b, a, o)
\* decompile_word that masks the a field a bit too wide
decompile_word_wide_mask(word) == <<word \div 1024, (word \div 16) % 128, word % 16>>

decompile_word(word) == <<word \div 1024, (word \div 16) % 64, word % 16>>

--------------------------------------------------------------------------
(* RAM.  contents is a list of RamSize words; the model keeps it as the    *)
(* finite map of its non-zero cells (every other cell holds 0x0000, as     *)
(* RAM.__init__ fills it).  A Python list takes the indices -size..size-1, *)
(* a negative one counting from the end.                                   *)

Cell(contents, k) == IF k \in DOMAIN contents THEN contents[k] ELSE 0

Store(contents, k, value) ==
    LET D == IF value = 0 THEN (DOMAIN contents) \ {k} ELSE (DOMAIN contents) \cup {k}
    IN  [x \in D |-> IF x = k THEN value ELSE contents[x]]

ListIndexOk(pos) == -RamSize <= pos /\ pos < RamSize

ListIndex(pos) == IF pos < 0 THEN pos + RamSize ELSE pos

\* RAM.get that wraps the position around the size
RAM_get_wrapped(contents, pos) == [val |-> Cell(contents, pos % RamSize), err |-> "none"]

\* RAM.get: [val, err]
RAM_get(contents, pos) ==
    IF ListIndexOk(pos)
    THEN [val |-> Cell(contents, ListIndex(pos)), err |-> "none"]
    ELSE [val |-> 0, err |-> "IndexError"]

\* RAM.set that stores the value as it is given
RAM_set_unsanitized(contents, pos, value) ==
    IF ListIndexOk(pos)
    THEN [contents |-> Store(contents, ListIndex(pos), value), err |-> "none"]
    ELSE [contents |-> contents, err |-> "IndexError"]

\* RAM.set: [contents, err]
RAM_set(contents, pos, value) ==
    LET v == sanitized_value(value, WordLength)
    IN  IF ListIndexOk(pos)
        THEN [contents |-> Store(contents, ListIndex(pos), v), err |-> "none"]
        ELSE [contents |-> contents, err |-> "IndexError"]

--------------------------------------------------------------------------
(* DCPURegisterBank.                                                       *)

\* __setattr__ that keeps only the low byte
Reg_setattr_byte(bank, name, value) ==
    [bank EXCEPT ![name] = sanitized_value(value, 8)]

\* __setattr__ for a name of all_regs
Reg_setattr(bank, name, value) ==
    [bank EXCEPT ![name] = sanitized_value(value, WordLength)]

\* __getitem__: [val, err]
Reg_getitem(bank, key) ==
    IF key \in AllRegNames
    THEN [val |-> bank[key], err |-> "none"]
    ELSE [val |-> 0, err |-> "KeyError"]

\* __setitem__: [bank, err]
Reg_setitem(bank, key, value) ==
    IF key \in AllRegNames
    THEN [bank |-> Reg_setattr(bank, key, value), err |-> "none"]
    ELSE [bank |-> bank, err |-> "KeyError"]

--------------------------------------------------------------------------
(* The CPU.  A CPU value c is [reg, ram, cycle].  A call returns           *)
(* [cpu, val, err]: the CPU as the call leaves it, the returned value, and *)
(* the exception raised ("none" for a normal return).  An exception leaves *)
(* the CPU as it was at the raise and skips the rest of the callers' code. *)
(* A parameter `value=None` is passed as 0: the methods only test it with  *)
(* `if value:`, which None and 0 both fail.                                *)

Ret(c, v) == [cpu |-> c, val |-> v, err |-> "none"]

Raise(c, e) == [cpu |-> c, val |-> 0, err |-> e]

\* r; F -- the statements F run after the call r returned normally
Then(r, F(_, _)) == IF r.err = "none" THEN F(r.cpu, r.val) ELSE r

\* self.reg.<name> = value
SetReg(c, name, value) == [c EXCEPT !.reg = Reg_setattr(c.reg, name, value)]

\* self.cycle += n
AddCycle(c, n) == [c EXCEPT !.cycle = c.cycle + n]

\* self.ram.get(pos)
ram_get(c, pos) ==
    LET g == RAM_get(c.ram, pos)
    IN  IF g.err = "none" THEN Ret(c, g.val) ELSE Raise(c, g.err)

\* self.ram.set(pos, value)
ram_set(c, pos, value) ==
    LET s == RAM_set(c.ram, pos, value)
    IN  IF s.err = "none" THEN Ret([c EXCEPT !.ram = s.contents], 0) ELSE Raise(c, s.err)

\* self.reg[key]
reg_get(c, key) ==
    LET g == Reg_getitem(c.reg, key)
    IN  IF g.err = "none" THEN Ret(c, g.val) ELSE Raise(c, g.err)

\* self.reg[key] = value
reg_set(c, key, value) ==
    LET s == Reg_setitem(c.reg, key, value)
    IN  IF s.err = "none" THEN Ret([c EXCEPT !.reg = s.bank], 0) ELSE Raise(c, s.err)

next_word(c) ==
    Then(ram_get(c, c.reg.pc),
         LAMBDA c1, word : Ret(SetReg(c1, "pc", c1.reg.pc + 1), word))

\* `if value: ram.set(sp, value) else: value = ram.get(sp)`, shared by pop, push, peek
StackAccess(c, value) ==
    IF value # 0
    THEN Then(ram_set(c, c.reg.sp, value), LAMBDA c1, x : Ret(c1, value))
    ELSE ram_get(c, c.reg.sp)

pop(c, value) ==
    Then(StackAccess(c, value),
         LAMBDA c1, v : Ret(SetReg(c1, "sp", c1.reg.sp + 1), v))

push(c, value) == StackAccess(SetReg(c, "sp", c.reg.sp - 1), value)

\* peek that moves SP as pop does
peek_pops(c, value) == pop(c, value)

peek(c, value) == StackAccess(c, value)

needs_next_word(operand) ==
    (16 <= operand /\ operand <= 23) \/ operand \in {30, 31}

\* self.value_codes[code]()
value_codes(c, code) ==
    IF code \in 0 .. 7 THEN reg_get(c, regs[code + 1])
    ELSE IF code \in 8 .. 15
    THEN Then(reg_get(c, regs[code - 8 + 1]), LAMBDA c1, r : ram_get(c1, r))
    ELSE IF code \in 16 .. 23
    THEN Then(next_word(c),
              LAMBDA c1, nw : Then(reg_get(c1, regs[code - 16 + 1]),
                                   LAMBDA c2, r : ram_get(c2, nw + r)))
    ELSE IF code = 24 THEN pop(c, 0)
    ELSE IF code = 25 THEN peek(c, 0)
    ELSE IF code = 26 THEN push(c, 0)
    ELSE IF code = 27 THEN Ret(c, c.reg.sp)
    ELSE IF code = 28 THEN Ret(c, c.reg.pc)
    ELSE IF code = 29 THEN Ret(c, c.reg.o)
    ELSE IF code = 30 THEN Then(next_word(c), LAMBDA c1, nw : ram_get(c1, nw))
    ELSE IF code = 31 THEN next_word(c)
    ELSE IF code \in 32 .. 63 THEN Ret(c, code - 32)
    ELSE Raise(c, "KeyError")

\* self.set_codes[code](value)
set_codes(c, code, value) ==
    IF code \in 0 .. 7 THEN reg_set(c, regs[code + 1], value)
    ELSE IF code \in 8 .. 15
    THEN Then(reg_get(c, regs[code - 8 + 1]), LAMBDA c1, r : ram_set(c1, r, value))
    ELSE IF code \in 16 .. 23
    THEN Then(next_word(c),
              LAMBDA c1, nw : Then(reg_get(c1, regs[code - 16 + 1]),
                                   LAMBDA c2, r : ram_set(c2, nw + r, value)))
    ELSE IF code = 24 THEN pop(c, value)
    ELSE IF code = 25 THEN peek(c, value)
    ELSE IF code = 26 THEN push(c, value)
    ELSE IF code = 27 THEN reg_set(c, "sp", value)
    ELSE IF code = 28 THEN reg_set(c, "pc", value)
    ELSE IF code = 29 THEN reg_set(c, "o", value)
    ELSE IF code = 30 THEN Then(next_word(c), LAMBDA c1, nw : ram_set(c1, nw, value))
    ELSE IF code \in 31 .. 63 THEN Ret(c, 0)
    ELSE Raise(c, "KeyError")

\* get_by_code that charges the literal codes a cycle as well
get_by_code_charges_literals(c, code) ==
    value_codes(IF needs_next_word(code) \/ code >= 32 THEN AddCycle(c, 1) ELSE c, code)

get_by_code(c, code) ==
    value_codes(IF needs_next_word(code) THEN AddCycle(c, 1) ELSE c, code)

set_by_code(c, code, value) ==
    Then(set_codes(IF needs_next_word(code) THEN AddCycle(c, 1) ELSE c, code, value),
         LAMBDA c1, x : Ret(c1, 0))

--------------------------------------------------------------------------
(* Operand resolution of step().  An address is what self.operands yields: *)
(* an int (a RAM position), a str (a register name) or None.               *)

IntAddr(n) == [kind |-> "int", int |-> n, name |-> ""]

StrAddr(s) == [kind |-> "str", int |-> 0, name |-> s]

NoneAddr == [kind |-> "None", int |-> 0, name |-> ""]

\* pop_addr that returns SP after the increment
pop_addr_incremented(c) ==
    LET c1 == SetReg(c, "sp", c.reg.sp + 1)
    IN  Ret(c1, IntAddr(c1.reg.sp))

pop_addr(c) == Ret(SetReg(c, "sp", c.reg.sp + 1), IntAddr(c.reg.sp))

push_addr(c) ==
    LET c1 == SetReg(c, "sp", c.reg.sp - 1)
    IN  Ret(c1, IntAddr(c1.reg.sp))

peek_addr(c) == Ret(c, IntAddr(c.reg.sp))

\* self.operands[code](code); the table has no entry for 0x1f .. 0x3f
operands(c, code) ==
    IF code \in 0 .. 7 THEN Ret(c, StrAddr(regs[code + 1]))
    ELSE IF code \in 8 .. 15
    THEN Then(reg_get(c, regs[code - 8 + 1]), LAMBDA c1, r : Ret(c1, IntAddr(r)))
    ELSE IF code \in 16 .. 23
    THEN Then(next_word(c),
              LAMBDA c1, nw : Then(reg_get(c1, regs[code - 16 + 1]),
                                   LAMBDA c2, r : Ret(c2, IntAddr(nw + r))))
    ELSE IF code = 24 THEN pop_addr(c)
    ELSE IF code = 25 THEN peek_addr(c)
    ELSE IF code = 26 THEN push_addr(c)
    ELSE IF code = 27 THEN Ret(c, StrAddr("sp"))
    ELSE IF code = 28 THEN Ret(c, StrAddr("pc"))
    ELSE IF code = 29 THEN Ret(c, StrAddr("o"))
    ELSE IF code = 30 THEN Then(next_word(c), LAMBDA c1, nw : Ret(c1, IntAddr(nw)))
    ELSE Raise(c, "KeyError")

\* address_for_operand without the surcharge of a next-word operand
address_for_operand_nosurcharge(c, operand) ==
    LET r == operands(c, operand)
    IN  IF r.err = "KeyError" THEN Ret(r.cpu, NoneAddr) ELSE r

address_for_operand(c, operand) ==
    LET r == operands(IF needs_next_word(operand) THEN AddCycle(c, 1) ELSE c, operand)
    IN  IF r.err = "KeyError" THEN Ret(r.cpu, NoneAddr) ELSE r

get_by_address(c, address, code) ==
    IF address.kind = "None" THEN value_codes(c, code)
    ELSE IF address.kind = "int" THEN ram_get(c, address.int)
    ELSE reg_get(c, address.name)

\* a None address is no int, so it goes to self.reg[None] = value
set_by_address(c, address, value) ==
    IF address.kind = "int" THEN ram_set(c, address.int, value)
    ELSE IF address.kind = "str" THEN reg_set(c, address.name, value)
    ELSE reg_set(c, "None", value)

--------------------------------------------------------------------------
(* The opcodes.  a and b are the operands' values, addr is A's address.    *)

SET(c, a, b, addr) == set_by_address(AddCycle(c, 1), addr, b)

\* ADD that takes a sum of exactly 2**16 as no overflow
ADD_late_carry(c, a, b, addr) ==
    LET value == a + b
    IN  Then(set_by_address(AddCycle(c, 2), addr, value),
             LAMBDA c1, x : Ret(SetReg(c1, "o", IF value <= 2 ^ 16 THEN 0 ELSE 1), 0))

ADD(c, a, b, addr) ==
    LET value == a + b
    IN  Then(set_by_address(AddCycle(c, 2), addr, value),
             LAMBDA c1, x : Ret(SetReg(c1, "o", IF value < 2 ^ 16 THEN 0 ELSE 1), 0))

\* SUB that sets O first and writes the difference second
SUB_overflow_first(c, a, b, addr) ==
    LET value == a - b
    IN  set_by_address(SetReg(AddCycle(c, 2), "o", IF value >= 0 THEN 0 ELSE 65535),
                       addr, value)

SUB(c, a, b, addr) ==
    LET value == a - b
    IN  Then(set_by_address(AddCycle(c, 2), addr, value),
             LAMBDA c1, x : Ret(SetReg(c1, "o", IF value >= 0 THEN 0 ELSE 65535), 0))

\* MUL that takes the overflow from the product already cut to a word
MUL_cut_first(c, a, b, addr) ==
    Then(set_by_address(AddCycle(c, 2), addr, MulParts(a, b).lo),
         LAMBDA c1, x : Ret(SetReg(c1, "o", MulParts(a, b).lo \div TwoToW), 0))

MUL(c, a, b, addr) ==
    Then(set_by_address(AddCycle(c, 2), addr, MulParts(a, b).lo),
         LAMBDA c1, x : Ret(SetReg(c1, "o", MulParts(a, b).hi), 0))

\* a // b raises ZeroDivisionError before set_by_address is called
\* DIV that leaves the remainder in O
DIV_remainder(c, a, b, addr) ==
    IF b = 0
    THEN set_by_address(AddCycle(c, 3), addr, 0)
    ELSE Then(set_by_address(AddCycle(c, 3), addr, a \div b),
              LAMBDA c1, x : Ret(SetReg(c1, "o", a % b), 0))

DIV(c, a, b, addr) ==
    IF b = 0
    THEN set_by_address(AddCycle(c, 3), addr, 0)
    ELSE Then(set_by_address(AddCycle(c, 3), addr, a \div b),
              LAMBDA c1, x : Ret(SetReg(c1, "o", DivO(a, b)), 0))

\* MOD that clears O
MOD_clears_o(c, a, b, addr) ==
    Then(set_by_address(AddCycle(c, 3), addr, IF b = 0 THEN 0 ELSE a % b),
         LAMBDA c1, x : Ret(SetReg(c1, "o", 0), 0))

MOD(c, a, b, addr) ==
    IF b = 0
    THEN set_by_address(AddCycle(c, 3), addr, 0)
    ELSE set_by_address(AddCycle(c, 3), addr, a % b)

SHL(c, a, b, addr) ==
    Then(set_by_address(AddCycle(c, 2), addr, ShlParts(a, b).lo),
         LAMBDA c1, x : Ret(SetReg(c1, "o", ShlParts(a, b).hi), 0))

\* SHR that loses the bits shifted out
SHR_bits_lost(c, a, b, addr) ==
    Then(set_by_address(AddCycle(c, 2), addr, ShrParts(a, b).lo),
         LAMBDA c1, x : Ret(SetReg(c1, "o", 0), 0))

SHR(c, a, b, addr) ==
    Then(set_by_address(AddCycle(c, 2), addr, ShrParts(a, b).lo),
         LAMBDA c1, x : Ret(SetReg(c1, "o", ShrParts(a, b).hi), 0))

AND(c, a, b, addr) == set_by_address(AddCycle(c, 1), addr, BitAnd(a, b))

BOR(c, a, b, addr) == set_by_address(AddCycle(c, 1), addr, BitOr(a, b))

XOR(c, a, b, addr) == set_by_address(AddCycle(c, 1), addr, BitXor(a, b))

\* skip_next_and_cycle that passes the instruction word alone, not its inline words
skip_next_and_cycle_oneword(c) ==
    Then(next_word(c), LAMBDA c1, word : Ret(AddCycle(c1, 1), 0))

skip_next_and_cycle(c) ==
    Then(next_word(c),
         LAMBDA c1, word :
            LET a  == decompile_word(word)[2]
                b  == decompile_word(word)[1]
                ra == IF needs_next_word(a) THEN next_word(c1) ELSE Ret(c1, 0)
            IN  Then(ra,
                     LAMBDA c2, x :
                        Then(IF needs_next_word(b) THEN next_word(c2) ELSE Ret(c2, 0),
                             LAMBDA c3, y : Ret(AddCycle(c3, 1), 0))))

IFE(c, a, b, addr) ==
    IF a = b THEN Ret(AddCycle(c, 2), 0) ELSE skip_next_and_cycle(AddCycle(c, 2))

\* IFN that continues when a = b
IFN_inverted(c, a, b, addr) ==
    IF a = b THEN Ret(AddCycle(c, 2), 0) ELSE skip_next_and_cycle(AddCycle(c, 2))

IFN(c, a, b, addr) ==
    IF a # b THEN Ret(AddCycle(c, 2), 0) ELSE skip_next_and_cycle(AddCycle(c, 2))

\* IFG that continues on a >= b
IFG_or_equal(c, a, b, addr) ==
    IF a >= b THEN Ret(AddCycle(c, 2), 0) ELSE skip_next_and_cycle(AddCycle(c, 2))

IFG(c, a, b, addr) ==
    IF a > b THEN Ret(AddCycle(c, 2), 0) ELSE skip_next_and_cycle(AddCycle(c, 2))

IFB(c, a, b, addr) ==
    IF BitAnd(a, b) # 0 THEN Ret(AddCycle(c, 2), 0) ELSE skip_next_and_cycle(AddCycle(c, 2))

JSR(c, a, addr) ==
    Then(push(AddCycle(c, 2), c.reg.pc),
         LAMBDA c1, x : Ret(SetReg(c1, "pc", a), 0))

\* self.opcodes[opcode](a_val, b_val, a_addr) for a basic opcode o in 1 .. 15
opcodes(o, c, a, b, addr) ==
    CASE o = 1  -> SET(c, a, b, addr)
      [] o = 2  -> ADD(c, a, b, addr)
      [] o = 3  -> SUB(c, a, b, addr)
      [] o = 4  -> MUL(c, a, b, addr)
      [] o = 5  -> DIV(c, a, b, addr)
      [] o = 6  -> MOD(c, a, b, addr)
      [] o = 7  -> SHL(c, a, b, addr)
      [] o = 8  -> SHR(c, a, b, addr)
      [] o = 9  -> AND(c, a, b, addr)
      [] o = 10 -> BOR(c, a, b, addr)
      [] o = 11 -> XOR(c, a, b, addr)
      [] o = 12 -> IFE(c, a, b, addr)
      [] o = 13 -> IFN(c, a, b, addr)
      [] o = 14 -> IFG(c, a, b, addr)
      [] o = 15 -> IFB(c, a, b, addr)

\* the locals of step() that a completed step leaves behind
NoLocals == [a_addr |-> NoneAddr, a_val |-> 0, b_val |-> 0]

\* step that resolves B before A
step_b_first(c) ==
    Then(next_word(c),
         LAMBDA c1, word :
            LET b0 == decompile_word(word)[1]
                a0 == decompile_word(word)[2]
                o  == decompile_word(word)[3]
                a  == IF o = 0 THEN b0 ELSE a0
            IN  IF o = 0 /\ a0 # 1 THEN Raise(c1, "ValueError")
                ELSE IF o # 0
                THEN Then(address_for_operand(c1, b0), LAMBDA c2, b_addr :
                     Then(get_by_address(c2, b_addr, b0), LAMBDA c3, b_val :
                     Then(address_for_operand(c3, a), LAMBDA c4, a_addr :
                     Then(get_by_address(c4, a_addr, a), LAMBDA c5, a_val :
                     Then(opcodes(o, c5, a_val, b_val, a_addr), LAMBDA c6, x :
                          Ret(c6, [a_addr |-> a_addr, a_val |-> a_val,
                                   b_val |-> b_val]))))))
                ELSE Then(address_for_operand(c1, a), LAMBDA c2, a_addr :
                     Then(get_by_address(c2, a_addr, a), LAMBDA c3, a_val :
                     Then(JSR(c3, a_val, a_addr), LAMBDA c6, x :
                          Ret(c6, [a_addr |-> a_addr, a_val |-> a_val,
                                   b_val |-> 0])))))

\* the resolution of an operand in step(): addr = address_for_operand(code)
\* and then get_by_address(addr, code=code)
resolve_operand(c, code) ==
    Then(address_for_operand(c, code), LAMBDA c1, addr : get_by_address(c1, addr, code))

\* step that resolves the operand of a non-basic instruction before it
\* looks the opcode up
step_operand_before_opcode(c) ==
    Then(next_word(c),
         LAMBDA c1, word :
            LET b0 == decompile_word(word)[1]
                a0 == decompile_word(word)[2]
                o  == decompile_word(word)[3]
                a  == IF o = 0 THEN b0 ELSE a0
            IN  Then(address_for_operand(c1, a), LAMBDA c2, a_addr :
                Then(get_by_address(c2, a_addr, a), LAMBDA c3, a_val :
                    IF o = 0 /\ a0 # 1 THEN Raise(c3, "ValueError")
                    ELSE IF o # 0
                    THEN Then(address_for_operand(c3, b0), LAMBDA c4, b_addr :
                         Then(get_by_address(c4, b_addr, b0), LAMBDA c5, b_val :
                         Then(opcodes(o, c5, a_val, b_val, a_addr), LAMBDA c6, x :
                              Ret(c6, [a_addr |-> a_addr, a_val |-> a_val,
                                       b_val |-> b_val]))))
                    ELSE Then(JSR(c3, a_val, a_addr), LAMBDA c6, x :
                              Ret(c6, [a_addr |-> a_addr, a_val |-> a_val,
                                       b_val |-> 0])))))

\* step that works out the target of a PEEK or POP again at the write, from
\* SP as B left it
step_target_at_write(c) ==
    Then(next_word(c),
         LAMBDA c1, word :
            LET b0 == decompile_word(word)[1]
                a0 == decompile_word(word)[2]
                o  == decompile_word(word)[3]
                a  == IF o = 0 THEN b0 ELSE a0
            IN  IF o = 0 /\ a0 # 1 THEN Raise(c1, "ValueError")
                ELSE
                Then(address_for_operand(c1, a), LAMBDA c2, a_addr :
                Then(get_by_address(c2, a_addr, a), LAMBDA c3, a_val :
                    IF o # 0
                    THEN Then(address_for_operand(c3, b0), LAMBDA c4, b_addr :
                         Then(get_by_address(c4, b_addr, b0), LAMBDA c5, b_val :
                         Then(opcodes(o, c5, a_val, b_val,
                                      IF a \in {24, 25} THEN IntAddr(c5.reg.sp) ELSE a_addr),
                              LAMBDA c6, x :
                              Ret(c6, [a_addr |-> a_addr, a_val |-> a_val,
                                       b_val |-> b_val]))))
                    ELSE Then(JSR(c3, a_val, a_addr), LAMBDA c6, x :
                              Ret(c6, [a_addr |-> a_addr, a_val |-> a_val,
                                       b_val |-> 0])))))

\* the second definition of step (dcpu.py:381), which replaces the first;
\* NonBasicOpcode(a) raises ValueError for every a but 0x01
step(c) ==
    Then(next_word(c),
         LAMBDA c1, word :
            LET b0 == decompile_word(word)[1]
                a0 == decompile_word(word)[2]
                o  == decompile_word(word)[3]
                a  == IF o = 0 THEN b0 ELSE a0
            IN  IF o = 0 /\ a0 # 1 THEN Raise(c1, "ValueError")
                ELSE
                Then(address_for_operand(c1, a), LAMBDA c2, a_addr :
                Then(get_by_address(c2, a_addr, a), LAMBDA c3, a_val :
                    IF o # 0
                    THEN Then(address_for_operand(c3, b0), LAMBDA c4, b_addr :
                         Then(get_by_address(c4, b_addr, b0), LAMBDA c5, b_val :
                         Then(opcodes(o, c5, a_val, b_val, a_addr), LAMBDA c6, x :
                              Ret(c6, [a_addr |-> a_addr, a_val |-> a_val,
                                       b_val |-> b_val]))))
                    ELSE Then(JSR(c3, a_val, a_addr), LAMBDA c6, x :
                              Ret(c6, [a_addr |-> a_addr, a_val |-> a_val,
                                       b_val |-> 0])))))

--------------------------------------------------------------------------
(* The state: one CPU (its register bank, the contents of its RAM, its     *)
(* cycle counter) and hist, the calls made on it so far, each with the CPU *)
(* it was made on, the exception it raised, the value it returned and, for *)
(* a completed step, the step's locals.                                    *)

VARIABLES reg, ram, cycle, hist

vars == <<reg, ram, cycle, hist>>

cpu == [reg |-> reg, ram |-> ram, cycle |-> cycle]

\* CPU(initial_registers, initial_ram, initial_cycle): the bank sanitizes
\* the initial registers, the RAM is taken as it is
CPU(initial_registers, initial_ram, initial_cycle) ==
    [reg   |-> [n \in AllRegNames |-> sanitized_value(initial_registers[n], WordLength)],
     ram   |-> initial_ram,
     cycle |-> initial_cycle]

Call(op, code, pos, name, value, r) ==
    [op |-> op, code |-> code, pos |-> pos, name |-> name, value |-> value,
     before |-> cpu, err |-> r.err,
     ret |-> IF op \in {"get_by_code", "ram_get", "reg_get", "resolve"} /\ r.err = "none"
             THEN r.val ELSE 0,
     loc |-> IF op = "step" /\ r.err = "none" THEN r.val ELSE NoLocals]

Commit(r, call) ==
    /\ reg' = r.cpu.reg
    /\ ram' = r.cpu.ram
    /\ cycle' = r.cpu.cycle
    /\ hist' = Append(hist, call)

\* cpu.step()
Step ==
    LET r == step(cpu)
    IN  Commit(r, Call("step", 0, 0, "", 0, r))

\* cpu.ram.set(pos, value)
RamSet(pos, value) ==
    LET r == ram_set(cpu, pos, value)
    IN  Commit(r, Call("ram_set", 0, pos, "", value, r))

\* cpu.ram.get(pos)
RamGet(pos) ==
    LET r == ram_get(cpu, pos)
    IN  Commit(r, Call("ram_get", 0, pos, "", 0, r))

\* cpu.reg[name]
RegRead(name) ==
    LET r == reg_get(cpu, name)
    IN  Commit(r, Call("reg_get", 0, 0, name, 0, r))

\* cpu.reg.<name> += 1, for a name of all_regs
RegIncrement(name) ==
    LET r == Ret(SetReg(cpu, name, cpu.reg[name] + 1), 0)
    IN  Commit(r, Call("reg_inc", 0, 0, name, 1, r))

\* addr = cpu.address_for_operand(code); cpu.get_by_address(addr, code=code)
Resolve(code) ==
    LET r == resolve_operand(cpu, code)
    IN  Commit(r, Call("resolve", code, 0, "", 0, r))

\* cpu.reg[name] = value
RegWrite(name, value) ==
    LET r == reg_set(cpu, name, value)
    IN  Commit(r, Call("reg_set", 0, 0, name, value, r))

\* cpu.get_by_code(code)
GetByCode(code) ==
    LET r == get_by_code(cpu, code)
    IN  Commit(r, Call("get_by_code", code, 0, "", 0, r))

\* cpu.set_by_code(code, value)
SetByCode(code, value) ==
    LET r == set_by_code(cpu, code, value)
    IN  Commit(r, Call("set_by_code", code, 0, "", value, r))

(* Reading the history. *)

NCalls == Len(hist)

Last == hist[NCalls]

\* the CPU as call k left it
After(k) == IF k = NCalls THEN cpu ELSE hist[k + 1].before

--------------------------------------------------------------------------
(* The CPUs the specifications start from: CPU(initial_registers,          *)
(* initial_ram) for a choice of machines (registers, data cells), each     *)
(* with an instruction word at PC and a tail of words behind it.  The tail *)
(* words serve as inline operand words and as the instructions that        *)
(* follow; data, program and tail are all words.                           *)

\* the bounds of the specifications: calls made on one CPU
MaxOps == 1

MaxSteps == 2

Registers(a, b, c, x, y, z, i, j, pc, sp, o) ==
    [a |-> a, b |-> b, c |-> c, x |-> x, y |-> y, z |-> z, i |-> i, j |-> j,
     pc |-> pc, sp |-> sp, o |-> o]

\* `cells` written over `under`, cell by cell, with RAM.set
RECURSIVE Overlay(_, _)
Overlay(under, cells) ==
    IF DOMAIN cells = {} THEN under
    ELSE LET k == CHOOSE k \in DOMAIN cells : TRUE
         IN  Overlay(Store(under, k, cells[k]),
                     [x \in (DOMAIN cells) \ {k} |-> cells[x]])

\* the words `ws` laid at pc, pc+1, ... (wrapping at the end of the RAM)
Program(pc, ws) ==
    LET at(k) == CHOOSE n \in 1 .. Len(ws) : (pc + n - 1) % RamSize = k
    IN  [k \in { (pc + n - 1) % RamSize : n \in 1 .. Len(ws) } |-> ws[at(k)]]

Machines ==
    { [regs |-> Registers(0, 0, 0, 0, 0, 0, 0, 0, 16, 256, 0),
       data |-> <<>>],
      [regs |-> Registers(8192, 8193, 3, 4, 5, 6, 7, 65535, 65535, 0, 4660),
       data |-> (8192 :> 7 @@ 8193 :> 7 @@ 65534 :> 9 @@ 12288 :> 65535)],
      [regs |-> Registers(1, 2, 3, 4, 5, 6, 7, 65534, 65534, 65535, 1),
       data |-> (1 :> 40960 @@ 2 :> 24576 @@ 65534 :> 77 @@ 4097 :> 16)],
      [regs |-> Registers(65535, 16, 3, 4, 5, 6, 7, 18, 16, 18, 65535),
       data |-> (65535 :> 32768 @@ 34 :> 5 @@ 19 :> 1 @@ 20 :> 300)] }

\* 32225 (0x7de1) SET [NW], NW; 27009 SET POP, PUSH; 257 SET [NW+A], A;
\* 1026 ADD A, B; 31745 SET A, NW: each of them at each place behind PC
Tails ==
    { <<32225, 27009, 257, 1026, 31745>>,
      <<27009, 257, 1026, 31745, 32225>>,
      <<257, 1026, 31745, 32225, 27009>>,
      <<1026, 31745, 32225, 27009, 257>> }

\* the operand codes the instruction at PC is drawn from: the ends of each
\* range of the operand table and every single code between them
OperandCodes == {0, 1, 7, 8, 15, 16, 23, 24, 25, 26, 27, 28, 29, 30, 31, 32, 33, 63}

Opcodes == 0 .. 15

StartCPU(m, word, tail) ==
    CPU(m.regs, Overlay(m.data, Program(m.regs.pc, <<word>> \o tail)), 0)

StartAt(c) ==
    /\ reg = c.reg
    /\ ram = c.ram
    /\ cycle = c.cycle
    /\ hist = <<>>

(* SpecStep: every instruction word over OperandCodes, on every machine    *)
(* and tail, and then step() MaxSteps times.                               *)

InitStep ==
    \E m \in Machines, tail \in Tails, o \in Opcodes, a \in OperandCodes, b \in OperandCodes :
        StartAt(StartCPU(m, compile_word(b, a, o), tail))

NextStep == NCalls < MaxSteps /\ Step

SpecStep == InitStep /\ [][NextStep]_vars

(* Spec: the calls a client makes on a CPU, MaxOps of them, with arguments *)
(* in and out of the word range, on CPUs that hold one instruction of each *)
(* kind.                                                                   *)

\* SET B, 2; ADD A, B; SUB [NW], POP; MUL PUSH, [J]; DIV B, 0; MOD PEEK, NW;
\* SHL A, 31; SHR [A], 1; IFE A, 1; IFG SP, O; JSR 5; JSR [NW+J]; the zero
\* word; SET PC, POP; XOR O, [NW+A]
ApiWords ==
    { compile_word(34, 1, 1), compile_word(1, 0, 2), compile_word(24, 30, 3),
      compile_word(15, 26, 4), compile_word(32, 1, 5), compile_word(31, 25, 6),
      compile_word(63, 0, 7), compile_word(33, 8, 8), compile_word(33, 0, 12),
      compile_word(29, 27, 14), compile_word(37, 1, 0), compile_word(23, 1, 0),
      0, compile_word(24, 28, 1), compile_word(16, 29, 11) }

ApiValues == {-1, 0, 65535, 65541}

ApiCodes == OperandCodes \cup {64}

ApiNames == {"a", "j", "pc", "sp", "o", "nonsense"}

ApiPositions == {0, 16, 65535, 65536, 4294967}

Init ==
    \E m \in Machines, w \in ApiWords :
        StartAt(StartCPU(m, w, <<32225, 27009, 257, 1026, 31745>>))

ClientStep == NCalls < MaxOps /\ Step

ClientRamSet ==
    NCalls < MaxOps /\ \E pos \in ApiPositions, value \in ApiValues : RamSet(pos, value)

ClientRegWrite ==
    NCalls < MaxOps /\ \E name \in ApiNames, value \in ApiValues : RegWrite(name, value)

ClientGetByCode == NCalls < MaxOps /\ \E code \in ApiCodes : GetByCode(code)

ClientSetByCode ==
    NCalls < MaxOps /\ \E code \in ApiCodes, value \in ApiValues : SetByCode(code, value)

Next ==
    \/ ClientStep
    \/ ClientRamSet
    \/ ClientRegWrite
    \/ ClientGetByCode
    \/ ClientSetByCode

Spec == Init /\ [][Next]_vars

(* SpecRam: MaxCalls calls of RAM.set and RAM.get on the RAM of a CPU, at  *)
(* positions in and out of the list and with values in and out of the word *)
(* range.  SpecBank: MaxCalls reads, writes and increments of the register *)
(* bank, by each name and by a name it does not have.                      *)

MaxCalls == 2

RamPositions == {-65537, -65536, -1, 0, 16, 65535, 65536, 4294967}

RamValues == {-16, -1, 0, 65535, 65552}

InitRam == \E m \in Machines : StartAt(CPU(m.regs, m.data, 0))

SetRam == NCalls < MaxCalls /\ \E pos \in RamPositions, value \in RamValues : RamSet(pos, value)

GetRam == NCalls < MaxCalls /\ \E pos \in RamPositions : RamGet(pos)

NextRam ==
    \/ SetRam
    \/ GetRam

SpecRam == InitRam /\ [][NextRam]_vars

BankNames == AllRegNames \cup {"nonsense"}

BankValues == {-1, 0, 4112, 65535, 65552}

WriteBank == NCalls < MaxCalls /\ \E name \in BankNames, value \in BankValues : RegWrite(name, value)

ReadBank == NCalls < MaxCalls /\ \E name \in BankNames : RegRead(name)

IncrementBank == NCalls < MaxCalls /\ \E name \in AllRegNames : RegIncrement(name)

NextBank ==
    \/ WriteBank
    \/ ReadBank
    \/ IncrementBank

SpecBank == InitRam /\ [][NextBank]_vars

(* SpecCodec: compile_word on every triple of fields and decompile_word on *)
(* every word, and each of them on what the other returned, MaxCalls calls *)
(* in all.  The calls do not touch the CPU.                                *)

CodecCall(op, args, ret) ==
    /\ hist' = Append(hist, [op |-> op, args |-> args, ret |-> ret, before |-> cpu, err |-> "none"])
    /\ UNCHANGED <<reg, ram, cycle>>

\* compile_word(b, a, o)
CompileWord(b, a, o) == CodecCall("compile_word", <<b, a, o>>, compile_word(b, a, o))

\* decompile_word(word)
DecompileWord(word) == CodecCall("decompile_word", <<word>>, decompile_word(word))

InitCodec == StartAt(CPU(Registers(0, 0, 0, 0, 0, 0, 0, 0, 0, 0, 0), <<>>, 0))

CompileFields ==
    /\ NCalls = 0
    /\ \E b \in 0 .. 63, a \in 0 .. 63, o \in 0 .. 15 : CompileWord(b, a, o)

DecompileAny ==
    /\ NCalls = 0
    /\ \E word \in Word : DecompileWord(word)

\* b, a, o = decompile_word(word); compile_word(b, a, o)
CompileDecompiled ==
    /\ NCalls > 0 /\ NCalls < MaxCalls
    /\ Last.op = "decompile_word"
    /\ CompileWord(Last.ret[1], Last.ret[2], Last.ret[3])

\* decompile_word(compile_word(b, a, o))
DecompileCompiled ==
    /\ NCalls > 0 /\ NCalls < MaxCalls
    /\ Last.op = "compile_word"
    /\ DecompileWord(Last.ret)

NextCodec ==
    \/ CompileFields
    \/ DecompileAny
    \/ CompileDecompiled
    \/ DecompileCompiled

SpecCodec == InitCodec /\ [][NextCodec]_vars

(* SpecCode: MaxCalls calls of set_by_code and get_by_code, by a code of   *)
(* each kind of the operand table and one outside it, with values in and   *)
(* out of the word range.                                                  *)

\* A, [NW+A], POP, PEEK, PUSH, SP, [NW], NW, literals 0, 1 and 31, no code
CodeCodes == {0, 16, 24, 25, 26, 27, 30, 31, 32, 33, 63, 64}

CodeValues == {-1, 0, 48879, 65541}

SetCode == NCalls < MaxCalls /\ \E code \in CodeCodes, value \in CodeValues : SetByCode(code, value)

GetCode == NCalls < MaxCalls /\ \E code \in CodeCodes : GetByCode(code)

NextCode ==
    \/ SetCode
    \/ GetCode

SpecCode == InitRam /\ [][NextCode]_vars

(* SpecProgram: the sample program of test_example_code at RAM[0..27] of a *)
(* fresh CPU, and step() MaxProgramSteps times.                            *)

MaxProgramSteps == 150

example_code ==
    << 31745, 48, 32225, 4096, 32, 30723, 4096, 49165, 32193, 26, 43105, 31745,
       8192, 8545, 8192, 33891, 32877, 32193, 13, 36913, 31760, 24, 32193, 26,
       36919, 25025, 32193, 26 >>

InitProgram ==
    StartAt(CPU(Registers(0, 0, 0, 0, 0, 0, 0, 0, 0, 0, 0),
                Overlay(<<>>, Program(0, example_code)), 0))

NextProgram == NCalls < MaxProgramSteps /\ Step

SpecProgram == InitProgram /\ [][NextProgram]_vars

(* SpecStack: a program of n instructions SET PUSH, v and then n           *)
(* instructions SET r, POP, at PC = 0x10, for n = 1 and n = 2, with SP at  *)
(* both ends of the RAM, inside it and on the program; the cells the       *)
(* pushes go to hold other words before.  Then step() MaxStackSteps times. *)

MaxStackSteps == 4

StackValues == {0, 1, 31, 48879, 65535}

StackPointers == {0, 1, 18, 256, 65535}

\* the codes that give v as B: the next word, and the literal code if any
ValueCodes(v) == {31} \cup (IF v < 32 THEN {32 + v} ELSE {})

\* SET PUSH, v
PushWords(v, b) == <<compile_word(b, 26, 1)>> \o (IF b = 31 THEN <<v>> ELSE <<>>)

\* SET r, POP
PopWords(r) == <<compile_word(24, r, 1)>>

StackCPU(sp, ws) ==
    CPU(Registers(4369, 8738, 13107, 17476, 21845, 26214, 30583, 34952, 16, sp, 0),
        Overlay(((sp - 1) % RamSize :> 30583 @@ (sp - 2) % RamSize :> 26214),
                Program(16, ws)),
        0)

InitStack ==
    \E sp \in StackPointers, v1 \in StackValues, v2 \in StackValues,
       r1 \in {0, 7}, r2 \in {0, 3} :
        \E b1 \in ValueCodes(v1), b2 \in ValueCodes(v2) :
            \/ v2 = 0 /\ b2 = 31 /\ r2 = 0
                /\ StartAt(StackCPU(sp, PushWords(v1, b1) \o PopWords(r1)))
            \/ StartAt(StackCPU(sp, PushWords(v1, b1) \o PushWords(v2, b2)
                                        \o PopWords(r1) \o PopWords(r2)))

NextStack == NCalls < MaxStackSteps /\ Step

SpecStack == InitStack /\ [][NextStack]_vars

(* SpecRead: on each CPU of Spec, the value of an operand code read one    *)
(* way or the other, get_by_code or the resolution of step(), for every    *)
(* code of the table; MaxOps calls.                                        *)

AllCodes == 0 .. 63

ReadByCode == NCalls < MaxOps /\ \E code \in AllCodes : GetByCode(code)

ReadByAddress == NCalls < MaxOps /\ \E code \in AllCodes : Resolve(code)

NextRead ==
    \/ ReadByCode
    \/ ReadByAddress

SpecRead == Init /\ [][NextRead]_vars

(* SpecArith: one instruction OP A, B of a writing opcode, for every pair  *)
(* of values of ArithValues as the value of A's target and of register B,  *)
(* with A's target a register, a RAM cell reached each way, or O; and then *)
(* step() MaxSteps times.  Register A and every RAM cell an A code reaches *)
(* hold the value of a; B's code is 0x01 (register B) or 0x00 (register A, *)
(* the same value as a).                                                   *)

ArithValues ==
    {0, 1, 2, 3, 15, 16, 17, 31, 32, 255, 256, 767, 32767, 32768, 61440, 65534, 65535}

ArithOpcodes == 1 .. 11

\* A, [C], [NW+X], POP, PEEK, PUSH, O, [NW]
ArithTargets == {0, 10, 19, 24, 25, 26, 29, 30}

ArithSources == {0, 1}

ArithCPU(word, va, vb, vo) ==
    CPU(Registers(va, vb, 12288, 16, 0, 0, 0, 0, 256, 16384, vo),
        Overlay((12288 :> va @@ 20480 :> va @@ 20496 :> va @@ 16384 :> va @@ 16383 :> va),
                Program(256, <<word, 20480>>)),
        0)

InitArith ==
    \E o \in ArithOpcodes, a \in ArithTargets, b \in ArithSources,
       va \in ArithValues, vb \in ArithValues, vo \in {0, 48879} :
        StartAt(ArithCPU(compile_word(b, a, o), va, vb, vo))

SpecArith == InitArith /\ [][NextStep]_vars

--------------------------------------------------------------------------
(* Reading a step of the history against the instruction it ran: the word  *)
(* at PC before the step and its fields, by the encoding of the            *)
(* instruction word (o in bits 0..3, a in bits 4..9, b in bits 10..15).    *)

IsStep(k) == hist[k].op = "step"

Completed(k) == IsStep(k) /\ hist[k].err = "none"

PcOf(c, n) == (c.reg.pc + n) % TwoToW

WordAt(k) == Cell(hist[k].before.ram, hist[k].before.reg.pc)

FieldO(k) == WordAt(k) % 16

FieldA(k) == (WordAt(k) \div 16) % 64

FieldB(k) == WordAt(k) \div 1024

IsBasic(k) == FieldO(k) # 0

IsJSR(k) == FieldO(k) = 0 /\ FieldA(k) = 1

\* the operand codes that take an inline word: 0x10..0x17, 0x1e, 0x1f
TakesWord(code) == code \in (16 .. 23) \cup {30, 31}

Count(code) == IF TakesWord(code) THEN 1 ELSE 0

\* the inline words of the instruction step k ran
InlineWords(k) == IF IsBasic(k) THEN Count(FieldA(k)) + Count(FieldB(k)) ELSE Count(FieldB(k))

IsConditional(k) == FieldO(k) \in 12 .. 15

\* whether the conditional of step k lets the next instruction run
CondHolds(k) ==
    LET a == hist[k].loc.a_val
        b == hist[k].loc.b_val
    IN  CASE FieldO(k) = 12 -> a = b
          [] FieldO(k) = 13 -> a # b
          [] FieldO(k) = 14 -> a > b
          [] FieldO(k) = 15 -> BitAnd(a, b) # 0

Skips(k) == IsConditional(k) /\ ~CondHolds(k)

\* the word a failed conditional skips, and its inline words
SkippedWord(k) == Cell(hist[k].before.ram, PcOf(hist[k].before, 1 + InlineWords(k)))

SkippedInline(k) ==
    Count((SkippedWord(k) \div 16) % 64) + Count(SkippedWord(k) \div 1024)

BaseCost(k) ==
    IF ~IsBasic(k) THEN 2
    ELSE IF FieldO(k) \in {1, 9, 10, 11} THEN 1
    ELSE IF FieldO(k) \in {5, 6} THEN 3
    ELSE 2

--------------------------------------------------------------------------
(* C1.  Word range: whatever calls are made on a CPU built from words --   *)
(* step(), RAM.set, register writes, get_by_code, set_by_code, the calls   *)
(* that raise included -- each of the eleven registers and every RAM cell  *)
(* holds a value in [0, 2^16).                                             *)
C1_WordRange ==
    /\ \A n \in AllRegNames : reg[n] \in Word
    /\ \A k \in DOMAIN ram : k \in 0 .. (RamSize - 1) /\ ram[k] \in Word

\* a register written with -1 holds 0xffff
C1_Witness ==
    /\ NCalls = 1
    /\ Last.op = "reg_set" /\ Last.value = -1 /\ Last.err = "none"
    /\ reg[Last.name] = 65535

(* C2.  Cycle accounting: a step that completes adds to cycle the base     *)
(* cost of its opcode, 1 for each operand of the instruction that takes an *)
(* inline word, and 1 when a conditional fails and skips; the inline words *)
(* of the skipped instruction add nothing.                                 *)
C2_CycleAccounting ==
    (NCalls > 0 /\ Completed(NCalls)) =>
        cycle - Last.before.cycle =
            BaseCost(NCalls) + InlineWords(NCalls) + (IF Skips(NCalls) THEN 1 ELSE 0)

\* a conditional with two inline words fails and skips an instruction with
\* inline words of its own: 2 + 2 + 1 cycles
C2_Witness ==
    /\ NCalls > 0 /\ Completed(NCalls)
    /\ Skips(NCalls) /\ InlineWords(NCalls) = 2 /\ SkippedInline(NCalls) > 0
    /\ cycle - Last.before.cycle = 5

(* C3.  PC advance: a step that completes and does not write PC (no JSR,   *)
(* A's code not 0x1c) leaves PC = (PC before + n) mod 2^16, n the words    *)
(* taken from the instruction stream: the instruction word, one per        *)
(* operand that takes an inline word and, when a conditional fails, the    *)
(* skipped word and one per operand code of it that takes an inline word.  *)
C3_PcAdvance ==
    (NCalls > 0 /\ Completed(NCalls) /\ IsBasic(NCalls) /\ FieldA(NCalls) # 28) =>
        reg.pc = PcOf(Last.before,
                      1 + InlineWords(NCalls)
                        + (IF Skips(NCalls) THEN 1 + SkippedInline(NCalls) ELSE 0))

\* a failed conditional whose skip wraps PC past the end of the RAM
C3_Witness ==
    /\ NCalls > 0 /\ Completed(NCalls) /\ FieldA(NCalls) # 28
    /\ Skips(NCalls) /\ SkippedInline(NCalls) = 2
    /\ reg.pc < Last.before.reg.pc

--------------------------------------------------------------------------
(* The operand table read on the CPU before the step, for the codes whose  *)
(* value needs no side effect: a general register, the RAM cell a general  *)
(* register points to, a literal.                                          *)

GeneralReg(c, n) == c.reg[all_regs[n + 1]]

IsPlain(code) == code \in (0 .. 15) \cup (32 .. 63)

PlainValue(c, code) ==
    IF code \in 0 .. 7 THEN GeneralReg(c, code)
    ELSE IF code \in 8 .. 15 THEN Cell(c.ram, GeneralReg(c, code - 8))
    ELSE code - 32

IsStack(code) == code \in {24, 25, 26}

\* what resolving a stack code adds to SP
StackDelta(code) == IF code = 24 THEN 1 ELSE IF code = 26 THEN -1 ELSE 0

SpOf(c, n) == (c.reg.sp + n) % TwoToW

\* the inline words behind the instruction word
W1(k) == Cell(hist[k].before.ram, PcOf(hist[k].before, 1))

W2(k) == Cell(hist[k].before.ram, PcOf(hist[k].before, 2))

\* the RAM position an inline-word operand addresses, given its inline word
InlineTarget(c, code, w) == IF code = 30 THEN w ELSE w + GeneralReg(c, code - 16)

GeneralUnchanged(c) == \A n \in 0 .. 7 : GeneralReg(cpu, n) = GeneralReg(c, n)

\* what the target of an address holds on the CPU c
TargetValue(c, addr) == IF addr.kind = "int" THEN Cell(c.ram, addr.int) ELSE c.reg[addr.name]

(* C4.  Operand order: in a basic instruction A is resolved before B.      *)
(* When both codes take an inline word, A takes the word at PC+1 and B the *)
(* word at PC+2 (SET [NW], NW stores RAM[PC+2] at address RAM[PC+1], and   *)
(* does not store RAM[PC+1] at address RAM[PC+2]); when both are stack     *)
(* codes, B sees SP as A left it.                                          *)
C4_OperandOrder ==
    (NCalls > 0 /\ Completed(NCalls) /\ IsBasic(NCalls)) =>
        LET k  == NCalls
            c0 == Last.before
            a  == FieldA(k)
            b  == FieldB(k)
            spA == SpOf(c0, StackDelta(a))
        IN  /\ (TakesWord(a) /\ TakesWord(b)) =>
                /\ IF a = 31
                   THEN Last.loc.a_addr = NoneAddr /\ Last.loc.a_val = W1(k)
                   ELSE /\ Last.loc.a_addr = IntAddr(InlineTarget(c0, a, W1(k)))
                        /\ Last.loc.a_val = Cell(c0.ram, InlineTarget(c0, a, W1(k)))
                /\ Last.loc.b_val =
                       IF b = 31 THEN W2(k) ELSE Cell(c0.ram, InlineTarget(c0, b, W2(k)))
            /\ (FieldO(k) = 1 /\ a = 30 /\ b = 31) =>
                /\ Cell(ram, W1(k)) = W2(k)
                /\ W2(k) # W1(k) => Cell(ram, W2(k)) = Cell(c0.ram, W2(k))
            /\ (IsStack(a) /\ IsStack(b)) =>
                /\ Last.loc.a_addr = IntAddr(IF a = 26 THEN spA ELSE c0.reg.sp)
                /\ Last.loc.b_val =
                       Cell(c0.ram, IF b = 26 THEN (spA - 1) % TwoToW ELSE spA)
                /\ reg.sp = SpOf(c0, StackDelta(a) + StackDelta(b))

\* SET [NW], NW with different inline words, and a cell at RAM[PC+2] that
\* would show a store the wrong way round
C4_Witness ==
    /\ NCalls > 0 /\ Completed(NCalls)
    /\ FieldO(NCalls) = 1 /\ FieldA(NCalls) = 30 /\ FieldB(NCalls) = 31
    /\ W1(NCalls) # W2(NCalls)
    /\ Cell(ram, W1(NCalls)) = W2(NCalls)
    /\ Cell(ram, W2(NCalls)) # W1(NCalls)

(* C5.  Write to a literal target: a step of a writing opcode (SET .. XOR) *)
(* whose A code is 0x1f or in 0x20..0x3f completes without error, discards *)
(* the result and leaves the RAM and every register but PC (and O, for the *)
(* opcodes that set O) as they were.                                       *)
C5_LiteralTargetDiscarded ==
    (NCalls > 0 /\ IsStep(NCalls) /\ FieldO(NCalls) \in 1 .. 11
        /\ FieldA(NCalls) \in 31 .. 63) =>
        /\ Last.err = "none"
        /\ ram = Last.before.ram
        /\ \A n \in AllRegNames \ {"pc", "o"} : reg[n] = Last.before.reg[n]
        /\ FieldO(NCalls) \in {1, 6, 9, 10, 11} => reg.o = Last.before.reg.o

(* C6.  DIV by zero: with b = 0 and a writable target of A other than O, a *)
(* DIV step completes without error, writes 0 to A's target and leaves     *)
(* O = 0, whatever a and O were.                                           *)
C6_DivByZero ==
    LET k == NCalls
    IN  /\ (k > 0 /\ IsStep(k) /\ FieldO(k) = 5 /\ FieldA(k) \in (0 .. 7) \cup {27, 28}
              /\ IsPlain(FieldB(k)) /\ PlainValue(Last.before, FieldB(k)) = 0) =>
                Last.err = "none"
        /\ (k > 0 /\ Completed(k) /\ FieldO(k) = 5 /\ Last.loc.b_val = 0
              /\ FieldA(k) \notin {29} \cup (31 .. 63)) =>
                /\ TargetValue(cpu, Last.loc.a_addr) = 0
                /\ reg.o = 0

(* C7.  JSR: a JSR step leaves SP = (SP before the push - 1) mod 2^16,     *)
(* RAM[SP] = the PC after the instruction word and the operand's inline    *)
(* word (whatever that return address is, 0 included), and PC = the value  *)
(* read for the operand.                                                   *)
C7_JSR ==
    (NCalls > 0 /\ Completed(NCalls) /\ IsJSR(NCalls)) =>
        LET k  == NCalls
            c0 == Last.before
        IN  /\ reg.sp = SpOf(c0, StackDelta(FieldB(k)) - 1)
            /\ Cell(ram, reg.sp) = PcOf(c0, 1 + InlineWords(k))
            /\ reg.pc = Last.loc.a_val

(* C8.  Conditional skip: IFE / IFN / IFG / IFB let the next instruction   *)
(* run exactly when a = b / a # b / a > b / (a & b) # 0; otherwise the     *)
(* step moves PC past the whole next instruction (its word and one word    *)
(* per operand code that takes an inline word).  The skipped instruction   *)
(* has no other effect: SP (beyond what the conditional's own stack        *)
(* operands did), O, the general registers and the RAM are unchanged, also *)
(* when the skipped operand codes are POP or PUSH.                         *)
C8_ConditionalSkip ==
    (NCalls > 0 /\ Completed(NCalls) /\ IsConditional(NCalls)) =>
        LET k  == NCalls
            c0 == Last.before
            a  == IF IsPlain(FieldA(k)) THEN PlainValue(c0, FieldA(k)) ELSE Last.loc.a_val
            b  == IF IsPlain(FieldB(k)) THEN PlainValue(c0, FieldB(k)) ELSE Last.loc.b_val
            continue == CASE FieldO(k) = 12 -> a = b
                          [] FieldO(k) = 13 -> a # b
                          [] FieldO(k) = 14 -> a > b
                          [] FieldO(k) = 15 -> BitAnd(a, b) # 0
        IN  /\ a = Last.loc.a_val /\ b = Last.loc.b_val
            /\ reg.pc = PcOf(c0, 1 + InlineWords(k)
                                   + (IF continue THEN 0 ELSE 1 + SkippedInline(k)))
            /\ reg.sp = SpOf(c0, StackDelta(FieldA(k)) + StackDelta(FieldB(k)))
            /\ reg.o = c0.reg.o
            /\ GeneralUnchanged(c0)
            /\ ram = c0.ram

\* IFG on equal operands skips SET POP, PUSH, which leaves SP alone
C8_Witness ==
    /\ NCalls > 0 /\ Completed(NCalls) /\ FieldO(NCalls) = 14
    /\ Last.loc.a_val = Last.loc.b_val
    /\ SkippedWord(NCalls) = 27009
    /\ reg.pc = PcOf(Last.before, 2 + InlineWords(NCalls))
    /\ reg.sp = Last.before.reg.sp

--------------------------------------------------------------------------
(* The arithmetic opcodes.  a is what A's target held before the step, b   *)
(* the value read for B; the target is a general register or a RAM cell.   *)

Arith(k, o) ==
    /\ k > 0 /\ Completed(k) /\ FieldO(k) = o
    /\ \/ hist[k].loc.a_addr.kind = "int"
       \/ hist[k].loc.a_addr.kind = "str" /\ hist[k].loc.a_addr.name \notin {"pc", "sp", "o"}

ArithA(k) == TargetValue(hist[k].before, hist[k].loc.a_addr)

ArithB(k) == hist[k].loc.b_val

\* the values are the ones the CPU held: a is the value read for A, and b
\* is register B or register A as B's code says
ArithInputs(k) ==
    /\ ArithA(k) = hist[k].loc.a_val
    /\ FieldB(k) \in {0, 1} => ArithB(k) = GeneralReg(hist[k].before, FieldB(k))

\* the product a*b in two words, from the bytes of a and of b
Product(a, b) ==
    LET a1  == a \div 256
        a0  == a % 256
        b1  == b \div 256
        b0  == b % 256
        mid == a1 * b0 + a0 * b1
        s   == (mid % 256) * 256 + a0 * b0
    IN  [lo |-> s % 65536, hi |-> a1 * b1 + (mid \div 256) + (s \div 65536)]

\* the double word [lo, hi] doubled n times, cut to 32 bits
RECURSIVE Doubled(_, _)
Doubled(d, n) ==
    IF n = 0 THEN d
    ELSE Doubled([lo |-> (2 * d.lo) % 65536,
                  hi |-> (2 * d.hi + (d.lo \div 32768)) % 65536], n - 1)

\* a<<b in two words: past 32 places nothing of a word is left in them
Shifted(a, b) == Doubled([lo |-> a, hi |-> 0], IF b > 32 THEN 32 ELSE b)

(* C9.  ADD and SUB wrap around: after ADD the target holds (a+b) mod 2^16 *)
(* and O = 1 if a+b >= 2^16, else 0 (target + 2^16*O = a+b); after SUB the *)
(* target holds (a-b) mod 2^16 and O = 0xffff if a < b, else 0.            *)
C9_AddSub ==
    LET k == NCalls
        a == ArithA(k)
        b == ArithB(k)
        t == TargetValue(cpu, Last.loc.a_addr)
    IN  /\ Arith(k, 2) =>
            /\ ArithInputs(k)
            /\ t = (a + b) % 65536
            /\ reg.o = (IF a + b >= 65536 THEN 1 ELSE 0)
            /\ t + 65536 * reg.o = a + b
        /\ Arith(k, 3) =>
            /\ ArithInputs(k)
            /\ t = (a - b) % 65536
            /\ reg.o = (IF a < b THEN 65535 ELSE 0)

\* a sum of exactly 2^16 into a RAM cell: the cell holds 0 and O = 1
C9_Witness ==
    /\ Arith(NCalls, 2)
    /\ Last.loc.a_addr.kind = "int"
    /\ ArithA(NCalls) + ArithB(NCalls) = 65536
    /\ Last.before.reg.o # 1
    /\ TargetValue(cpu, Last.loc.a_addr) = 0 /\ reg.o = 1

(* C10.  MUL and SHL high word: after MUL the target holds the low 16 bits *)
(* of a*b and O its bits 16..31 (target + 2^16*O = a*b); after SHL the     *)
(* target holds (a<<b) mod 2^16 and O = ((a<<b) >> 16) mod 2^16, so that   *)
(* target + 2^16*O = a<<b for b <= 16, and O = 0 when no bit is shifted    *)
(* out of the word.                                                        *)
C10_MulShl ==
    LET k == NCalls
        a == ArithA(k)
        b == ArithB(k)
        t == TargetValue(cpu, Last.loc.a_addr)
    IN  /\ Arith(k, 4) =>
            /\ ArithInputs(k)
            /\ t = Product(a, b).lo
            /\ reg.o = Product(a, b).hi
            /\ (a < 32768 \/ b < 32768) => t + 65536 * reg.o = a * b
        /\ Arith(k, 7) =>
            /\ ArithInputs(k)
            /\ t = Shifted(a, b).lo
            /\ reg.o = Shifted(a, b).hi
            /\ b <= 15 => t + 65536 * reg.o = a * 2 ^ b
            /\ b = 16 => t = 0 /\ reg.o = a
            /\ (b <= 15 /\ a * 2 ^ b < 65536) => reg.o = 0

\* 0xffff * 0xffff = 0xfffe0001
C10_Witness ==
    /\ Arith(NCalls, 4)
    /\ ArithA(NCalls) = 65535 /\ ArithB(NCalls) = 65535
    /\ TargetValue(cpu, Last.loc.a_addr) = 1 /\ reg.o = 65534

\* q = floor(r * 2^16 / b) for r < b, said without a 32-bit product:
\* q*b, in two words, is r*2^16 or falls short of it by less than b
IsFraction(q, r, b) ==
    LET p == Product(q, b)
    IN  \/ p.hi = r /\ p.lo = 0
        \/ p.hi = r - 1 /\ 65536 - p.lo < b

(* C11.  DIV with b # 0: for a and b >= 1 with A's target a general        *)
(* register or a RAM cell, after DIV the target holds floor(a/b) and       *)
(* O = floor(a*2^16 / b) mod 2^16, so that 2^16*target + O =               *)
(* floor(a*2^16 / b); O = 0 exactly when b divides a.                      *)
C11_Div ==
    LET k == NCalls
        a == ArithA(k)
        b == ArithB(k)
        t == TargetValue(cpu, Last.loc.a_addr)
    IN  (Arith(k, 5) /\ b >= 1) =>
            /\ ArithInputs(k)
            /\ t = a \div b
            /\ reg.o \in Word
            /\ IsFraction(reg.o, a % b, b)
            /\ a < 32768 => /\ reg.o = ((a * 65536) \div b) % 65536
                            /\ 65536 * t + reg.o = (a * 65536) \div b
            /\ reg.o = 0 <=> a % b = 0

\* 1 / 3 = 0 with O = 0x5555, into a RAM cell
C11_Witness ==
    /\ Arith(NCalls, 5)
    /\ Last.loc.a_addr.kind = "int"
    /\ ArithA(NCalls) = 1 /\ ArithB(NCalls) = 3
    /\ TargetValue(cpu, Last.loc.a_addr) = 0 /\ reg.o = 21845

\* the double word [lo, hi] halved n times
RECURSIVE Halved(_, _)
Halved(d, n) ==
    IF n = 0 THEN d
    ELSE Halved([lo |-> (d.lo \div 2) + 32768 * (d.hi % 2), hi |-> d.hi \div 2], n - 1)

\* (a<<16)>>b in two words: past 32 places nothing of a is left
ShiftedRight(a, b) == Halved([lo |-> 0, hi |-> a], IF b > 32 THEN 32 ELSE b)

(* C12.  SHR: for a, b with A's target a general register or a RAM cell,   *)
(* after SHR the target holds a>>b and O = ((a<<16) >> b) mod 2^16; b = 0  *)
(* gives target = a and O = 0, b >= 16 gives target = 0, and for b <= 16   *)
(* 2^16*target + O = (a<<16) >> b.                                         *)
C12_Shr ==
    LET k == NCalls
        a == ArithA(k)
        b == ArithB(k)
        t == TargetValue(cpu, Last.loc.a_addr)
    IN  Arith(k, 8) =>
            /\ ArithInputs(k)
            /\ t = ShiftedRight(a, b).hi
            /\ reg.o = ShiftedRight(a, b).lo
            /\ b < 16 => t = a \div (2 ^ b)
            /\ b = 0 => t = a /\ reg.o = 0
            /\ b >= 16 => t = 0
            /\ b = 16 => reg.o = a
            /\ (b <= 16 /\ a < 32768) => 65536 * t + reg.o = (a * 65536) \div (2 ^ b)

\* 0x02ff >> 1 = 0x017f with O = 0x8000
C12_Witness ==
    /\ Arith(NCalls, 8)
    /\ ArithA(NCalls) = 767 /\ ArithB(NCalls) = 1
    /\ TargetValue(cpu, Last.loc.a_addr) = 383 /\ reg.o = 32768

(* C13.  MOD: for a, b with A's target a general register or a RAM cell,   *)
(* a MOD step completes without error, writes a mod b to the target when   *)
(* b # 0 and 0 when b = 0, and leaves O as it was before the step.         *)
C13_Mod ==
    LET k == NCalls
        a == ArithA(k)
        b == ArithB(k)
        t == TargetValue(cpu, Last.loc.a_addr)
    IN  /\ (k > 0 /\ IsStep(k) /\ FieldO(k) = 6 /\ FieldA(k) \in ArithTargets \ {29})
            => Completed(k)
        /\ Arith(k, 6) =>
            /\ ArithInputs(k)
            /\ t = (IF b = 0 THEN 0 ELSE a % b)
            /\ reg.o = Last.before.reg.o

\* 0xffff mod 0 = 0, with a non-zero O kept
C13_Witness ==
    /\ Arith(NCalls, 6)
    /\ ArithA(NCalls) = 65535 /\ ArithB(NCalls) = 0
    /\ TargetValue(cpu, Last.loc.a_addr) = 0
    /\ Last.before.reg.o = 48879 /\ reg.o = 48879

--------------------------------------------------------------------------
(* The RAM and the register bank.                                          *)

InRam(pos) == 0 <= pos /\ pos < RamSize

\* every cell but `pos` is as it was in c
OtherCellsUnchanged(c, pos) ==
    \A k \in ((DOMAIN ram) \cup (DOMAIN c.ram)) \ {pos} : Cell(ram, k) = Cell(c.ram, k)

(* C14.  RAM range errors: for every position outside [0, size), negative  *)
(* ones included, RAM.get(pos) and RAM.set(pos, v) fail with a range error *)
(* and leave every RAM cell unchanged.                                     *)
C14_RamRangeErrors ==
    (NCalls > 0 /\ Last.op \in {"ram_get", "ram_set"} /\ ~InRam(Last.pos)) =>
        /\ Last.err = "IndexError"
        /\ ram = Last.before.ram

(* C15.  RAM write: for every pos in [0, size) and every integer v,        *)
(* RAM.set(pos, v) makes RAM.get(pos) = v mod 2^16 and leaves every other  *)
(* cell and the size unchanged; a following RAM.get returns that value and *)
(* does not change the RAM.                                                *)
C15_RamWrite ==
    /\ (NCalls > 0 /\ Last.op = "ram_set" /\ InRam(Last.pos)) =>
        /\ Last.err = "none"
        /\ RAM_get(ram, Last.pos) = [val |-> Last.value % 65536, err |-> "none"]
        /\ OtherCellsUnchanged(Last.before, Last.pos)
        /\ DOMAIN ram \subseteq 0 .. (RamSize - 1)
        /\ reg = Last.before.reg /\ cycle = Last.before.cycle
    /\ (NCalls > 0 /\ Last.op = "ram_get" /\ InRam(Last.pos)) =>
        /\ Last.err = "none"
        /\ Last.ret = Cell(Last.before.ram, Last.pos)
        /\ cpu = Last.before
    /\ (NCalls > 1 /\ Last.op = "ram_get" /\ hist[NCalls - 1].op = "ram_set"
            /\ Last.pos = hist[NCalls - 1].pos /\ InRam(Last.pos)) =>
        Last.ret = hist[NCalls - 1].value % 65536

\* set(0xffff, -16) and then get(0xffff) = 0xfff0, over a cell that held
\* something else
C15_Witness ==
    /\ NCalls = 2
    /\ hist[1].op = "ram_set" /\ hist[1].pos = 65535 /\ hist[1].value = -16
    /\ Cell(hist[1].before.ram, 65535) = 32768
    /\ Last.op = "ram_get" /\ Last.pos = 65535 /\ Last.ret = 65520

(* C16.  Register bank writes: for each of the eleven names and every      *)
(* integer v, writing v stores v mod 2^16 (2^16 + k stores k, -1 stores    *)
(* 0xffff, PC = 0xffff incremented by 1 becomes 0) and leaves the other    *)
(* ten registers unchanged; a read or write by any other name fails with a *)
(* key error and leaves all eleven registers unchanged.                    *)
C16_RegisterBank ==
    LET c == Last.before
        n == Last.name
        v == Last.value
        OthersUnchanged == \A m \in AllRegNames \ {n} : reg[m] = c.reg[m]
    IN  NCalls > 0 =>
        /\ (Last.op = "reg_set" /\ n \in AllRegNames) =>
            /\ Last.err = "none"
            /\ reg[n] = v % 65536
            /\ (v >= 65536 /\ v < 131072) => reg[n] = v - 65536
            /\ v = -1 => reg[n] = 65535
            /\ OthersUnchanged
            /\ ram = c.ram /\ cycle = c.cycle
        /\ Last.op = "reg_inc" =>
            /\ Last.err = "none"
            /\ reg[n] = (IF c.reg[n] = 65535 THEN 0 ELSE c.reg[n] + 1)
            /\ OthersUnchanged
        /\ (Last.op = "reg_get" /\ n \in AllRegNames) =>
            /\ Last.err = "none"
            /\ Last.ret = c.reg[n]
            /\ cpu = c
        /\ (Last.op \in {"reg_set", "reg_get"} /\ n \notin AllRegNames) =>
            /\ Last.err = "KeyError"
            /\ cpu = c

\* pc = 0xffff; pc += 1 leaves 0; then writing 2^16 + 16 to o stores 16
C16_Witness ==
    /\ NCalls = 2
    /\ hist[1].op = "reg_inc" /\ hist[1].name = "pc" /\ hist[1].before.reg.pc = 65535
    /\ Last.before.reg.pc = 0
    /\ Last.op = "reg_set" /\ Last.name = "o" /\ Last.value = 65552 /\ reg.o = 16

--------------------------------------------------------------------------
(* The instruction encoding.                                               *)

(* C17.  Encoding round trip: for all b, a in [0, 0x3f] and o in [0, 0xf], *)
(* compile_word(b, a, o) is in [0, 0xffff] and decompile_word of it is     *)
(* (b, a, o); and for every word w, compile_word of decompile_word(w) is w.*)
C17_EncodingRoundTrip ==
    LET k == NCalls
    IN  /\ (k > 0 /\ Last.op = "compile_word") => Last.ret \in 0 .. 65535
        /\ (k > 1 /\ Last.op = "decompile_word") => Last.ret = hist[k - 1].args
        /\ (k > 1 /\ Last.op = "compile_word") => Last.ret = hist[k - 1].args[1]

\* compile_word(0x03, 0x01, 0x2) = 0b0000110000010010, and back
C17_Witness ==
    /\ NCalls = 2
    /\ hist[1].op = "compile_word" /\ hist[1].args = <<3, 1, 2>> /\ hist[1].ret = 3090
    /\ Last.op = "decompile_word" /\ Last.ret = <<3, 1, 2>>

--------------------------------------------------------------------------
(* Errors of step().                                                       *)

(* C18.  Undefined non-basic opcode: when the fetched word has o = 0 and   *)
(* a # 0x01 (the all-zero word included), step() fails with an error; at   *)
(* the error PC has advanced by exactly one (mod 2^16) and cycle, SP, O,   *)
(* the general registers and every RAM cell are as before the step: the b  *)
(* operand is not resolved.                                                *)
C18_UndefinedNonBasic ==
    LET k == NCalls
        c == Last.before
    IN  (k > 0 /\ IsStep(k) /\ FieldO(k) = 0 /\ FieldA(k) # 1) =>
            /\ Last.err = "ValueError"
            /\ reg.pc = PcOf(c, 1)
            /\ cycle = c.cycle
            /\ reg.sp = c.reg.sp /\ reg.o = c.reg.o
            /\ GeneralUnchanged(c)
            /\ ram = c.ram

\* the word with o = 0, a = 0 and b = POP at PC = 0xffff: the step fails,
\* PC wraps to 0 and SP is not popped
C18_Witness ==
    /\ NCalls > 0 /\ IsStep(NCalls)
    /\ FieldO(NCalls) = 0 /\ FieldA(NCalls) = 0 /\ FieldB(NCalls) = 24
    /\ Last.before.reg.pc = 65535
    /\ Last.err = "ValueError"
    /\ reg.pc = 0 /\ reg.sp = Last.before.reg.sp

--------------------------------------------------------------------------
(* Operand codes through set_by_code and get_by_code.                      *)

(* C19.  Stack codes through set_by_code/get_by_code: for every word v and *)
(* every SP, set_by_code(0x1a, v) sets SP to (SP-1) mod 2^16 and stores v  *)
(* at RAM[new SP]; set_by_code(0x19, v) stores v at RAM[SP] with SP        *)
(* unchanged; set_by_code(0x18, v) stores v at RAM[SP] and then increments *)
(* SP; hence set_by_code(0x1a, v) followed by get_by_code(0x18) returns v  *)
(* and restores SP.                                                        *)
C19_StackCodes ==
    LET k == NCalls
        c == Last.before
        v == Last.value
    IN  /\ (k > 0 /\ Last.op = "set_by_code" /\ v \in Word) =>
            /\ Last.code = 26 =>
                /\ Last.err = "none"
                /\ reg.sp = SpOf(c, -1)
                /\ Cell(ram, reg.sp) = v
            /\ Last.code = 25 =>
                /\ Last.err = "none"
                /\ reg.sp = c.reg.sp
                /\ Cell(ram, reg.sp) = v
            /\ Last.code = 24 =>
                /\ Last.err = "none"
                /\ reg.sp = SpOf(c, 1)
                /\ Cell(ram, c.reg.sp) = v
        /\ (k > 1 /\ Last.op = "get_by_code" /\ Last.code = 24
                /\ hist[k - 1].op = "set_by_code" /\ hist[k - 1].code = 26
                /\ hist[k - 1].value \in Word) =>
            /\ Last.err = "none"
            /\ Last.ret = hist[k - 1].value
            /\ reg.sp = hist[k - 1].before.reg.sp

(* C20.  Literal operand codes: for every c in 0x20..0x3f and every value  *)
(* v, get_by_code(c) returns c - 0x20 and set_by_code(c, v) is a no-op;    *)
(* neither call changes any register, any RAM cell or the cycle counter.   *)
C20_LiteralCodes ==
    (NCalls > 0 /\ Last.op \in {"get_by_code", "set_by_code"} /\ Last.code \in 32 .. 63) =>
        /\ Last.err = "none"
        /\ Last.op = "get_by_code" => Last.ret = Last.code - 32
        /\ cpu = Last.before

\* set_by_code(0x3f, -1) and then get_by_code(0x3f) = 31, on a CPU with
\* registers and RAM cells that are not zero
C20_Witness ==
    /\ NCalls = 2
    /\ hist[1].op = "set_by_code" /\ hist[1].code = 63 /\ hist[1].value = -1
    /\ Last.op = "get_by_code" /\ Last.code = 63 /\ Last.ret = 31
    /\ reg.a = 65535 /\ Cell(ram, 65535) = 32768
    /\ cpu = hist[1].before

--------------------------------------------------------------------------
(* Runs of several steps.                                                  *)

(* C21.  Sample program run: from a fresh CPU with the 28-word sample      *)
(* program at RAM[0..27], step() never raises an error; the execution      *)
(* reaches PC = 0x001a with cycle = 102, X = 0x40 and SP = 0 after exactly *)
(* 50 steps; from then on every step leaves PC = 0x001a, all other         *)
(* registers and all RAM unchanged and adds exactly 2 cycles (cycle = 302  *)
(* after 100 more steps).                                                  *)
C21_SampleProgram ==
    LET k == NCalls
    IN  /\ k > 0 => Last.op = "step" /\ Last.err = "none"
        /\ k < 50 => reg.pc # 26
        /\ k = 50 => reg.pc = 26 /\ cycle = 102 /\ reg.x = 64 /\ reg.sp = 0
        /\ k > 50 =>
            /\ reg = Last.before.reg /\ reg.pc = 26
            /\ ram = Last.before.ram
            /\ cycle = Last.before.cycle + 2
        /\ k = 150 => cycle = 302

\* the test's last assertion: 150 steps made, PC = 0x001a, cycle = 302
C21_Witness ==
    /\ NCalls = 150
    /\ \A k \in 1 .. 150 : Completed(k)
    /\ reg.pc = 26 /\ cycle = 302 /\ reg.x = 64 /\ reg.sp = 0
    /\ Cell(ram, 4096) = 32 /\ Cell(ram, 65535) = 22

\* step k completed and ran SET PUSH, v with v the next word or a literal
IsPush(k) ==
    /\ k > 0 /\ Completed(k)
    /\ FieldO(k) = 1 /\ FieldA(k) = 26 /\ FieldB(k) \in 31 .. 63

\* the v of SET PUSH, v as the instruction gives it
Pushed(k) == IF FieldB(k) = 31 THEN W1(k) ELSE FieldB(k) - 32

\* step k completed and ran SET r, POP for a general register r
IsPop(k) ==
    /\ k > 0 /\ Completed(k)
    /\ FieldO(k) = 1 /\ FieldA(k) \in 0 .. 7 /\ FieldB(k) = 24

(* C22.  Stack round trip through step(): for every word v and every SP    *)
(* (SP = 0 included, where PUSH wraps SP to 0xffff), SET PUSH, v and then  *)
(* SET r, POP for a general register r leaves r = v and SP as it was       *)
(* before the two steps; n PUSH steps followed by n POP steps return the   *)
(* pushed values in reverse order and restore SP; POP at SP = 0 reads      *)
(* RAM[0] and leaves SP = 1.                                               *)
C22_StackRoundTrip ==
    LET k == NCalls
    IN  /\ IsPush(k) =>
            /\ reg.sp = SpOf(Last.before, -1)
            /\ Cell(ram, reg.sp) = Pushed(k)
        /\ IsPop(k) =>
            /\ reg.sp = SpOf(Last.before, 1)
            /\ GeneralReg(cpu, FieldA(k)) = Cell(Last.before.ram, Last.before.reg.sp)
        /\ (IsPush(k - 1) /\ IsPop(k)) =>
            /\ GeneralReg(cpu, FieldA(k)) = Pushed(k - 1)
            /\ reg.sp = hist[k - 1].before.reg.sp
        /\ (IsPush(k - 3) /\ IsPush(k - 2) /\ IsPop(k - 1) /\ IsPop(k)) =>
            /\ GeneralReg(hist[k].before, FieldA(k - 1)) = Pushed(k - 2)
            /\ GeneralReg(cpu, FieldA(k)) = Pushed(k - 3)
            /\ reg.sp = hist[k - 3].before.reg.sp

\* SP = 0: SET PUSH, 0 over a cell that held another word wraps SP to
\* 0xffff, SET PUSH, 0xffff goes below it, and SET A, POP; SET X, POP
\* return 0xffff and then 0, with SP = 0 again
C22_Witness ==
    /\ NCalls = 4
    /\ IsPush(1) /\ IsPush(2) /\ IsPop(3) /\ IsPop(4)
    /\ hist[1].before.reg.sp = 0 /\ hist[2].before.reg.sp = 65535
    /\ Cell(hist[1].before.ram, 65535) = 30583
    /\ Pushed(1) = 0 /\ Pushed(2) = 65535
    /\ FieldA(3) = 0 /\ FieldA(4) = 3
    /\ reg.a = 65535 /\ reg.x = 0 /\ reg.sp = 0

(* C23.  Frozen write target: a basic instruction writes to the location  *)
(* A captured when A was resolved, not to one worked out after B was       *)
(* resolved or at the write.  With A = PEEK or POP and B = PUSH or POP the *)
(* result goes to the RAM address SP gave when A was resolved; with        *)
(* A = [NW] or [NW + register] the write takes no further inline word:     *)
(* each inline word is fetched once per step.                              *)
C23_FrozenTarget ==
    (NCalls > 0 /\ Completed(NCalls) /\ FieldO(NCalls) \in 1 .. 11) =>
        LET k  == NCalls
            c0 == Last.before
            a  == FieldA(k)
            b  == FieldB(k)
            nw == InlineTarget(c0, a, W1(k))
        IN  /\ (a \in {24, 25} /\ b \in {24, 26}) =>
                /\ Last.loc.a_addr = IntAddr(c0.reg.sp)
                /\ OtherCellsUnchanged(c0, c0.reg.sp)
                /\ FieldO(k) = 1 => Cell(ram, c0.reg.sp) = Last.loc.b_val
                /\ reg.sp = SpOf(c0, StackDelta(a) + StackDelta(b))
            /\ a \in (16 .. 23) \cup {30} =>
                /\ Last.loc.a_addr = IntAddr(nw)
                /\ OtherCellsUnchanged(c0, nw)
                /\ FieldO(k) = 1 => Cell(ram, nw) = Last.loc.b_val
                /\ reg.pc = PcOf(c0, 1 + InlineWords(k))
                /\ cycle = c0.cycle + BaseCost(k) + InlineWords(k)

\* SET POP, POP: the word above goes to the cell SP pointed to at first,
\* and the cell SP points to after the two pops is as it was
C23_Witness ==
    /\ NCalls > 0 /\ Completed(NCalls)
    /\ FieldO(NCalls) = 1 /\ FieldA(NCalls) = 24 /\ FieldB(NCalls) = 24
    /\ Cell(Last.before.ram, Last.before.reg.sp) # Last.loc.b_val
    /\ Cell(ram, Last.before.reg.sp) = Last.loc.b_val
    /\ Cell(ram, reg.sp) # Last.loc.b_val
    /\ reg.sp = SpOf(Last.before, 2)

(* C24.  Out-of-range operand address: when an operand with code in       *)
(* 0x10..0x17 resolves to NW + register >= 2^16 (the sum is not wrapped),  *)
(* step() fails with a range error; no RAM cell is modified by that step,  *)
(* PC stays advanced past the words already consumed and cycle keeps the   *)
(* operand surcharge already added.                                        *)
C24_OperandOutOfRange ==
    (NCalls > 0 /\ IsStep(NCalls) /\ (IsBasic(NCalls) \/ IsJSR(NCalls))) =>
        LET k    == NCalls
            c0   == Last.before
            a    == IF IsBasic(k) THEN FieldA(k) ELSE FieldB(k)
            b    == FieldB(k)
            aOut == a \in 16 .. 23 /\ InlineTarget(c0, a, W1(k)) >= RamSize
            wb   == IF Count(a) = 1 THEN W2(k) ELSE W1(k)
            bOut == IsBasic(k) /\ ~aOut /\ b \in 16 .. 23 /\ InlineTarget(c0, b, wb) >= RamSize
        IN  /\ aOut =>
                /\ Last.err = "IndexError"
                /\ ram = c0.ram
                /\ reg.pc = PcOf(c0, 2)
                /\ cycle = c0.cycle + 1
                /\ reg.sp = c0.reg.sp /\ reg.o = c0.reg.o /\ GeneralUnchanged(c0)
            /\ bOut =>
                /\ Last.err = "IndexError"
                /\ ram = c0.ram
                /\ reg.pc = PcOf(c0, 2 + Count(a))
                /\ cycle = c0.cycle + 1 + Count(a)
                /\ reg.sp = SpOf(c0, StackDelta(a))
                /\ reg.o = c0.reg.o /\ GeneralUnchanged(c0)

\* A = POP and B = [NW + J] with NW + J past the end of the RAM: the step
\* fails with SP popped, PC two words on and one cycle charged
C24_Witness ==
    /\ NCalls > 0 /\ IsStep(NCalls) /\ IsBasic(NCalls)
    /\ FieldA(NCalls) = 24 /\ FieldB(NCalls) = 23
    /\ W1(NCalls) + Last.before.reg.j >= RamSize
    /\ Last.err = "IndexError"
    /\ reg.sp = SpOf(Last.before, 1)
    /\ reg.pc = PcOf(Last.before, 2)
    /\ cycle = Last.before.cycle + 1
    /\ ram = Last.before.ram

--------------------------------------------------------------------------
(* The two ways to read an operand.                                        *)

\* the call r, made on the CPU the last call was made on, ends as the last
\* call did: the same exception or the same value, and the same CPU
SameOutcome(r) ==
    /\ r.err = Last.err
    /\ r.err = "none" => r.val = Last.ret
    /\ r.cpu.reg = reg /\ r.cpu.ram = ram /\ r.cpu.cycle = cycle

(* C25.  Read-path equivalence: for every operand code c in 0x00..0x3f and *)
(* every CPU state, get_by_code(c) returns the same value and makes the    *)
(* same changes to PC, SP, cycle and RAM as the operand resolution of      *)
(* step() (address_for_operand(c), then get_by_address(addr, code=c)), and *)
(* raises an error in exactly the same states.                             *)
C25_ReadPaths ==
    (NCalls > 0 /\ Last.code \in 0 .. 63) =>
        /\ Last.op = "get_by_code" => SameOutcome(resolve_operand(Last.before, Last.code))
        /\ Last.op = "resolve" => SameOutcome(get_by_code(Last.before, Last.code))

\* get_by_code(0x17), [NW + J], past the end of the RAM: IndexError with PC
\* advanced and the cycle charged, as in step()
C25_Witness ==
    /\ NCalls > 0
    /\ Last.op = "get_by_code" /\ Last.code = 23
    /\ Last.err = "IndexError"
    /\ reg.pc = PcOf(Last.before, 1) /\ cycle = Last.before.cycle + 1
    /\ resolve_operand(Last.before, 23).err = "IndexError"

--------------------------------------------------------------------------
(* The register O as the target of an instruction.                         *)

\* step k completed, ran opcode o and had the register O as A
OnO(k, o) == k > 0 /\ Completed(k) /\ FieldO(k) = o /\ FieldA(k) = 29

(* C26.  O as destination: for ADD, SUB, MUL, SHL, SHR and DIV with b # 0, *)
(* when A's code is 0x1d (register O) the result is written first and the  *)
(* overflow value second, so after the step O holds the opcode's overflow  *)
(* value and not the result; for SET, AND, BOR, XOR and MOD with A = O,    *)
(* O holds the result.                                                     *)
C26_OverflowAsTarget ==
    LET k == NCalls
        a == Last.loc.a_val
        b == Last.loc.b_val
    IN  /\ (k > 0 /\ Completed(k) /\ FieldA(k) = 29) =>
            /\ Last.loc.a_addr = StrAddr("o")
            /\ a = Last.before.reg.o
        /\ OnO(k, 2) => reg.o = (IF a + b >= 65536 THEN 1 ELSE 0)
        /\ OnO(k, 3) => reg.o = (IF a < b THEN 65535 ELSE 0)
        /\ OnO(k, 4) => reg.o = Product(a, b).hi
        /\ (OnO(k, 5) /\ b # 0) => reg.o \in Word /\ IsFraction(reg.o, a % b, b)
        /\ OnO(k, 7) => reg.o = Shifted(a, b).hi
        /\ OnO(k, 8) => reg.o = ShiftedRight(a, b).lo
        /\ OnO(k, 1) => reg.o = b
        /\ OnO(k, 6) => reg.o = (IF b = 0 THEN 0 ELSE a % b)
        /\ OnO(k, 9) => reg.o = BitAnd(a, b)
        /\ OnO(k, 10) => reg.o = BitOr(a, b)
        /\ OnO(k, 11) => reg.o = BitXor(a, b)

\* SUB O, B with O = 0xbeef and B = 0xffff: the difference is 0xbef0 and O
\* ends as 0xffff
C26_Witness ==
    /\ OnO(NCalls, 3)
    /\ Last.before.reg.o = 48879 /\ Last.loc.b_val = 65535
    /\ (48879 - 65535) % 65536 = 48880
    /\ reg.o = 65535

==========================================================================
